---- MODULE Spec2Model ----
(***************************************************************************)
(* Model of blender_export.py: geomExport opens the output file, doExport  *)
(* walks the objects of the current scene, looks the mesh of each selected *)
(* object up by the object's name, transforms it by the object's world     *)
(* matrix and writes one line per triangle (two per quad).                 *)
(*                                                                         *)
(* Numbers are fixed-point integers in units of 10^-(FracDigits+1), one    *)
(* decimal digit finer than '%f' prints.  The output file is the sequence  *)
(* of strings handed to file.write; a formatted triple is a sequence of    *)
(* three formatted numbers and the newline is NL.                          *)
(***************************************************************************)
EXTENDS Integers, Sequences, FiniteSets, TLC

\* ---------------------------------------------------------------- bounds
MaxObjs == 2        \* objects in the scene
MaxFaces == 2       \* faces of a mesh whose face list is drawn freely
MaxCalls == 2       \* successive geomExport calls in one behaviour

\* '%f' prints six fractional digits
FracDigits == 6

One == 10 ^ (FracDigits + 1)
Half == One \div 2
Quarter == One \div 4

Objs == 1..MaxObjs
\* mesh j is the mesh datablock owned by object j (obj.data)
Meshes == 1..MaxObjs
VertIds == 1..5

\* ------------------------------------------------------------ formatting
\* '%f' % x : sign, and |x| rounded to FracDigits digits (half to even)
FmtF(x) ==
    LET a == IF x < 0 THEN -x ELSE x
        q == a \div 10
        r == a % 10
        m == IF r < 5 THEN q
             ELSE IF r > 5 THEN q + 1
             ELSE IF q % 2 = 0 THEN q ELSE q + 1
    IN  [neg |-> x < 0, mag |-> m]

\* '%f,%f,%f ' % tuple(t)
Fmt3(t) == <<FmtF(t[1]), FmtF(t[2]), FmtF(t[3])>>

\* the string '\n'
NL == <<>>

\* ---------------------------------------------------------------- host
\* 4x4 affine matrix: l is the upper-left 3x3 block (rows), t the
\* translation row; Blender multiplies row vectors: co' = co * l + t
Identity == [l |-> <<<<1, 0, 0>>, <<0, 1, 0>>, <<0, 0, 1>>>>, t |-> <<0, 0, 0>>]
RotScale == [l |-> <<<<0, 2, 0>>, <<-2, 0, 0>>, <<0, 0, 2>>>>, t |-> <<One, 0, -Half>>]
Mirror   == [l |-> <<<<1, 0, 0>>, <<0, -1, 0>>, <<0, 0, 1>>>>, t |-> <<0, Quarter, 0>>]
Matrices == {Identity, RotScale, Mirror}

MulLin(M, v) ==
    [c \in 1..3 |-> v[1] * M.l[1][c] + v[2] * M.l[2][c] + v[3] * M.l[3][c]]

MulVec(M, v) == [c \in 1..3 |-> MulLin(M, v)[c] + M.t[c]]

\* material colours a mesh may carry, in list order
Palette == <<<<Half, Half, Half>>, <<One, 0, Quarter>>>>
MaterialLists == {SubSeq(Palette, 1, n) : n \in 0..Len(Palette)}

\* vertex lists of a face: an edge, a triangle, a quad, a pentagon
FaceVerts == {<<1, 2>>, <<3, 1, 2>>, <<1, 2, 3, 4>>, <<1, 2, 3, 4, 5>>}
\* material slots as the host stores them, one past the palette included
MatIdx == 0..Len(Palette)
\* material indices a scene interface may hand over, negative ones included
MatIdxAny == (0 - Len(Palette))..Len(Palette)

FaceKinds(idx) == [v : FaceVerts, mat : idx]

SeqsUpTo(S, n) == UNION {[1..k -> S] : k \in 0..n}

\* the vertices of mesh j in mesh-local space
LocalVerts(j) ==
    [k \in VertIds |->
        [co |-> <<k * Half + 3 * j, (k - 3) * Quarter - 4, j * One + 5 * k>>,
         no |-> IF k % 3 = 0 THEN <<One, 0, 0>>
                ELSE IF k % 3 = 1 THEN <<0, One, 0>> ELSE <<0, 0, One>>]]

\* the reference mesh library: mesh j has two faces of differing kinds
RefKinds == <<[v |-> <<1, 2, 3, 4>>, mat |-> 0], [v |-> <<3, 1, 2>>, mat |-> 1],
              [v |-> <<1, 2, 3, 4, 5>>, mat |-> 2], [v |-> <<1, 2>>, mat |-> 0]>>
RefFaces(j) == <<RefKinds[((j - 1) % 4) + 1], RefKinds[(j % 4) + 1]>>
RefMaterials(j) == SubSeq(Palette, 1, j % (Len(Palette) + 1))
RefMatrix(i) == IF i % 3 = 1 THEN RotScale ELSE IF i % 3 = 2 THEN Mirror ELSE Identity

\* outcomes of Blender.Mesh.Get(obj.name): an exception, None, or the
\* mesh of that name, which is the mesh of some object of the scene
RAISES == 0 - 1
NONE == 0
Lookups ==
    {g \in [Objs -> {RAISES, NONE} \cup Meshes] :
        \A a, b \in Objs : (a # b /\ g[a] \in Meshes) => g[a] # g[b]}

VARIABLES
    sel,          \* obj.isSelected()
    matrixWorld,  \* obj.matrixWorld
    Get,          \* result of Blender.Mesh.Get(obj.name) per object
    faces,        \* mesh.faces: sequence of [v, mat]
    materials,    \* mesh.materials: sequence of rgbCol
    verts,        \* mesh vertices: co and no, as the host holds them
    pre,          \* verts as they were when the current call began
    pc,           \* control point of geomExport / doExport
    oi,           \* position of `obj` in scene.objects
    mesh,         \* `mesh`, or NONE
    fi,           \* position of `face` in mesh.faces
    fileOpen,     \* the file handle is open
    opens,        \* successful open() calls of the current geomExport call
    closes,       \* file.close() calls of the current geomExport call
    output,       \* content of the output file: the strings written
    prevOutput,   \* content the file held when the current call began
    calls,        \* geomExport calls so far
    exc           \* exception in flight or propagated: where it was raised

scene == <<sel, matrixWorld, Get, faces, materials>>
handle == <<fileOpen, opens, closes>>
vars == <<sel, matrixWorld, Get, faces, materials, verts, pre, pc, oi, mesh, fi,
          fileOpen, opens, closes, output, prevOutput, calls, exc>>

\* ------------------------------------------------------------- helpers
\* Python list indexing: s[i] with negative indices counted from the end
PyIndexOk(s, i) == (0 - Len(s)) <= i /\ i < Len(s)
PyIndex(s, i) == IF i >= 0 THEN s[i + 1] ELSE s[Len(s) + i + 1]

White == <<One, One, One>>

\* the test of line 43
HasMaterial(mats, mi) == mi < Len(mats)

\* lines 42-46: the colour of a face
FaceColor(mats, mi) == IF HasMaterial(mats, mi) THEN PyIndex(mats, mi) ELSE White

\* line 44 raises IndexError
ColorFails(mats, mi) == HasMaterial(mats, mi) /\ ~PyIndexOk(mats, mi)

\* mesh.transform(matrix): recalc_normals defaults to False, so positions
\* are multiplied in place and normals are left as they are
Transform(vs, M) == [k \in DOMAIN vs |-> [co |-> MulVec(M, vs[k].co), no |-> vs[k].no]]

\* a writeTri that walks the vertices from the last to the first
WriteTriReversed(vl, col) ==
    [n \in 1..(3 * Len(vl)) |->
        LET v == vl[Len(vl) - ((n - 1) \div 3)]
        IN  IF n % 3 = 1 THEN Fmt3(v.co)
            ELSE IF n % 3 = 2 THEN Fmt3(v.no) ELSE Fmt3(col)] \o <<NL>>

\* writeTri: the strings written for the vertices `vl` with colour `col`
WriteTri(vl, col) ==
    [n \in 1..(3 * Len(vl)) |->
        LET v == vl[((n - 1) \div 3) + 1]
        IN  IF n % 3 = 1 THEN Fmt3(v.co)
            ELSE IF n % 3 = 2 THEN Fmt3(v.no) ELSE Fmt3(col)] \o <<NL>>

\* a quad split whose first triangle takes the fan (v0, v1, v3)
QuadFirstFan(v) == <<v[1], v[2], v[4]>>

\* the vertex tuples handed to writeTri for a quad
QuadFirst(v) == <<v[4], v[2], v[1]>>
QuadSecond(v) == <<v[2], v[3], v[4]>>

\* face.v resolved to the vertices of mesh m
VertsOf(m, ids) == [k \in 1..Len(ids) |-> verts[m][ids[k]]]

\* what lines 49-58 write for face f of mesh m
FaceWrites(m, f) ==
    LET col == FaceColor(materials[m], f.mat)
    IN  IF Len(f.v) = 3 THEN WriteTri(VertsOf(m, f.v), col)
        ELSE IF Len(f.v) = 4
             THEN WriteTri(VertsOf(m, QuadFirst(f.v)), col)
                  \o WriteTri(VertsOf(m, QuadSecond(f.v)), col)
             ELSE <<>>

\* an exception that leaves geomExport without passing a finally clause
OnRaiseUnprotected == "raised"
\* where control goes when doExport raises: the finally clause
OnRaise == "finally"

\* a lookup failure that ends the object loop (break for continue)
OnLookupFailureBreak == "finally"
\* where control goes when the mesh lookup fails: the next object
OnLookupFailure == "objects"

\* ---------------------------------------------------------------- init
InitControl ==
    /\ verts = [j \in Meshes |-> LocalVerts(j)]
    /\ pre = verts
    /\ pc = "idle" /\ oi = 0 /\ mesh = NONE /\ fi = 0
    /\ fileOpen = FALSE /\ opens = 0 /\ closes = 0
    /\ output = <<>> /\ prevOutput = <<>>
    /\ calls = 0 /\ exc = "none"

\* scenes that vary selection and name lookup over the reference library
InitObjects ==
    /\ sel \in [Objs -> BOOLEAN]
    /\ Get \in Lookups
    /\ matrixWorld = [i \in Objs |-> RefMatrix(i)]
    /\ faces = [j \in Meshes |-> RefFaces(j)]
    /\ materials = [j \in Meshes |-> RefMaterials(j)]

\* scenes that vary the world matrices
InitMatrices ==
    /\ sel = [i \in Objs |-> TRUE]
    /\ Get = [i \in Objs |-> i]
    /\ matrixWorld \in [Objs -> Matrices]
    /\ faces = [j \in Meshes |-> RefFaces(j)]
    /\ materials = [j \in Meshes |-> RefMaterials(j)]

\* scenes that vary the faces and materials of the meshes
InitMeshes(idx) ==
    /\ sel = [i \in Objs |-> TRUE]
    /\ Get = [i \in Objs |-> i]
    /\ matrixWorld = [i \in Objs |-> RefMatrix(i)]
    /\ \E fs \in SeqsUpTo(FaceKinds(idx), MaxFaces) : faces = [j \in Meshes |-> fs]
    /\ \E ms \in MaterialLists : materials = [j \in Meshes |-> ms]

Init == InitControl /\ (InitObjects \/ InitMatrices \/ InitMeshes(MatIdx))

\* ------------------------------------------------------------- actions
\* geomExport, line 10: open(filename, 'wb') succeeds and truncates
geomExport ==
    /\ pc \in {"idle", "done"}
    /\ calls < MaxCalls
    /\ calls' = calls + 1
    /\ prevOutput' = output
    /\ output' = <<>>
    /\ pre' = verts
    /\ fileOpen' = TRUE /\ opens' = 1 /\ closes' = 0
    /\ exc' = "none"
    /\ pc' = "export" /\ oi' = 0 /\ mesh' = NONE /\ fi' = 0
    /\ UNCHANGED <<scene, verts>>

\* doExport, line 19: scene = Blender.Scene.GetCurrent()
GetCurrent ==
    /\ pc = "export"
    /\ pc' = "objects" /\ oi' = 1
    /\ UNCHANGED <<scene, verts, pre, mesh, fi, handle, output, prevOutput, calls, exc>>

\* lines 25-26: the object is not selected
SkipUnselected ==
    /\ pc = "objects" /\ oi \in Objs
    /\ ~sel[oi]
    /\ oi' = oi + 1
    /\ UNCHANGED <<scene, verts, pre, pc, mesh, fi, handle, output, prevOutput, calls, exc>>

\* lines 28-31: Blender.Mesh.Get raises, the except clause continues
LookupRaises ==
    /\ pc = "objects" /\ oi \in Objs
    /\ sel[oi]
    /\ Get[oi] = RAISES
    /\ oi' = oi + 1
    /\ pc' = OnLookupFailure
    /\ UNCHANGED <<scene, verts, pre, mesh, fi, handle, output, prevOutput, calls, exc>>

\* lines 29, 33-34: Blender.Mesh.Get returns None
LookupNone ==
    /\ pc = "objects" /\ oi \in Objs
    /\ sel[oi]
    /\ Get[oi] = NONE
    /\ oi' = oi + 1
    /\ mesh' = NONE
    /\ pc' = OnLookupFailure
    /\ UNCHANGED <<scene, verts, pre, fi, handle, output, prevOutput, calls, exc>>

\* lines 29, 36: the mesh is found and transformed in place
TransformMesh ==
    /\ pc = "objects" /\ oi \in Objs
    /\ sel[oi]
    /\ Get[oi] \in Meshes
    /\ mesh' = Get[oi]
    /\ verts' = [verts EXCEPT ![Get[oi]] = Transform(verts[Get[oi]], matrixWorld[oi])]
    /\ pc' = "faces" /\ fi' = 1
    /\ UNCHANGED <<scene, pre, oi, handle, output, prevOutput, calls, exc>>

Face == faces[mesh][fi]
AtFace == pc = "faces" /\ fi \in 1..Len(faces[mesh])

\* lines 51-52: a triangle
WriteTriFace ==
    /\ AtFace
    /\ Len(Face.v) = 3
    /\ ~ColorFails(materials[mesh], Face.mat)
    /\ output' = output \o FaceWrites(mesh, Face)
    /\ fi' = fi + 1
    /\ UNCHANGED <<scene, verts, pre, pc, oi, mesh, handle, prevOutput, calls, exc>>

\* lines 53-55: a quad
WriteQuadFace ==
    /\ AtFace
    /\ Len(Face.v) = 4
    /\ ~ColorFails(materials[mesh], Face.mat)
    /\ output' = output \o FaceWrites(mesh, Face)
    /\ fi' = fi + 1
    /\ UNCHANGED <<scene, verts, pre, pc, oi, mesh, handle, prevOutput, calls, exc>>

\* a skip that leaves the face loop (break for continue)
SkipFaceBreak ==
    /\ pc = "faces" /\ fi \in 1..Len(faces[mesh])
    /\ Len(faces[mesh][fi].v) \notin {3, 4}
    /\ fi' = Len(faces[mesh]) + 1
    /\ UNCHANGED <<scene, verts, pre, pc, oi, mesh, handle, output, prevOutput, calls, exc>>

\* lines 56-58: neither
SkipFace ==
    /\ AtFace
    /\ Len(Face.v) \notin {3, 4}
    /\ ~ColorFails(materials[mesh], Face.mat)
    /\ output' = output \o FaceWrites(mesh, Face)
    /\ fi' = fi + 1
    /\ UNCHANGED <<scene, verts, pre, pc, oi, mesh, handle, prevOutput, calls, exc>>

\* line 39: the faces of the mesh are exhausted
EndFaces ==
    /\ pc = "faces" /\ fi > Len(faces[mesh])
    /\ pc' = "objects" /\ oi' = oi + 1
    /\ UNCHANGED <<scene, verts, pre, mesh, fi, handle, output, prevOutput, calls, exc>>

\* line 22: the objects are exhausted, doExport returns
EndObjects ==
    /\ pc = "objects" /\ oi > MaxObjs
    /\ pc' = "finally"
    /\ UNCHANGED <<scene, verts, pre, oi, mesh, fi, handle, output, prevOutput, calls, exc>>

\* lines 14-15: file.close(), then return or re-raise
Close ==
    /\ pc = "finally"
    /\ fileOpen' = FALSE /\ closes' = closes + 1
    /\ pc' = IF exc = "none" THEN "done" ELSE "raised"
    /\ UNCHANGED <<scene, verts, pre, oi, mesh, fi, opens, output, prevOutput, calls, exc>>

Next ==
    \/ geomExport
    \/ GetCurrent
    \/ SkipUnselected
    \/ LookupRaises
    \/ LookupNone
    \/ TransformMesh
    \/ WriteTriFace
    \/ WriteQuadFace
    \/ SkipFace
    \/ EndFaces
    \/ EndObjects
    \/ Close

Spec == Init /\ [][Next]_vars

\* ------------------------------------------------- exceptional outcomes
\* line 10: open() raises, geomExport is left before the try statement
OpenFails ==
    /\ pc \in {"idle", "done"}
    /\ calls < MaxCalls
    /\ calls' = calls + 1
    /\ prevOutput' = output
    /\ pre' = verts
    /\ fileOpen' = FALSE /\ opens' = 0 /\ closes' = 0
    /\ exc' = "open"
    /\ pc' = "raised" /\ oi' = 0 /\ mesh' = NONE /\ fi' = 0
    /\ UNCHANGED <<scene, verts, output>>

\* line 19: the host raises on scene access
GetCurrentRaises ==
    /\ pc = "export"
    /\ exc' = "scene"
    /\ pc' = OnRaise
    /\ UNCHANGED <<scene, verts, pre, oi, mesh, fi, handle, output, prevOutput, calls>>

\* line 36: mesh.transform rejects its argument and raises
TransformRaises ==
    /\ pc = "objects" /\ oi \in Objs
    /\ sel[oi]
    /\ Get[oi] \in Meshes
    /\ mesh' = Get[oi]
    /\ exc' = "transform"
    /\ pc' = OnRaise
    /\ UNCHANGED <<scene, verts, pre, oi, fi, handle, output, prevOutput, calls>>

\* line 44: materials[face.mat] raises IndexError
ColorRaises ==
    /\ AtFace
    /\ ColorFails(materials[mesh], Face.mat)
    /\ exc' = "index"
    /\ pc' = OnRaise
    /\ UNCHANGED <<scene, verts, pre, oi, mesh, fi, handle, output, prevOutput, calls>>

\* lines 65-69: a file.write raises after n of the face's writes succeeded
WriteRaises ==
    /\ AtFace
    /\ ~ColorFails(materials[mesh], Face.mat)
    /\ \E n \in 0..(Len(FaceWrites(mesh, Face)) - 1) :
          output' = output \o SubSeq(FaceWrites(mesh, Face), 1, n)
    /\ exc' = "write"
    /\ pc' = OnRaise
    /\ UNCHANGED <<scene, verts, pre, oi, mesh, fi, handle, prevOutput, calls>>

NextFault ==
    \/ Next
    \/ OpenFails
    \/ GetCurrentRaises
    \/ TransformRaises
    \/ WriteRaises

\* the export of the reference library with the exceptions the host and
\* the file can raise
InitFault == InitControl /\ (InitObjects \/ InitMatrices)
SpecFault == InitFault /\ [][NextFault]_vars

NextAny ==
    \/ Next
    \/ ColorRaises

\* the export of scenes whose faces carry any integer as material index
InitAny == InitControl /\ (InitObjects \/ InitMatrices \/ InitMeshes(MatIdxAny))
SpecAny == InitAny /\ [][NextAny]_vars

\* ---------------------------------------------------------- properties
\* the strings a step appended to the file
NewStrings == SubSeq(output', Len(output) + 1, Len(output'))
Appends == Len(output') >= Len(output) /\ SubSeq(output', 1, Len(output)) = output

\* rec is one record: position and normal of the vertices ids[1..3] of
\* mesh m, a colour triple after each, and the newline
IsRecordOf(rec, m, ids) ==
    /\ Len(rec) = 10
    /\ rec[10] = NL
    /\ \A k \in 1..3 :
          /\ rec[3 * k - 2] = Fmt3(verts[m][ids[k]].co)
          /\ rec[3 * k - 1] = Fmt3(verts[m][ids[k]].no)
          /\ Len(rec[3 * k]) = 3

\* the colour the specification gives a face with material index mi
ClaimedColor(mats, mi) == IF 0 <= mi /\ mi < Len(mats) THEN mats[mi + 1] ELSE White

\* the record the specification gives the vertices ids of mesh m
ClaimedRecord(m, ids, col) ==
    <<Fmt3(verts[m][ids[1]].co), Fmt3(verts[m][ids[1]].no), Fmt3(col),
      Fmt3(verts[m][ids[2]].co), Fmt3(verts[m][ids[2]].no), Fmt3(col),
      Fmt3(verts[m][ids[3]].co), Fmt3(verts[m][ids[3]].no), Fmt3(col), NL>>

ClaimedFace(m, f) ==
    LET col == ClaimedColor(materials[m], f.mat)
    IN  IF Len(f.v) = 3 THEN ClaimedRecord(m, f.v, col)
        ELSE IF Len(f.v) = 4
             THEN ClaimedRecord(m, <<f.v[4], f.v[2], f.v[1]>>, col)
                  \o ClaimedRecord(m, <<f.v[2], f.v[3], f.v[4]>>, col)
             ELSE <<>>

RECURSIVE ClaimedMesh(_, _)
ClaimedMesh(m, k) ==
    IF k > Len(faces[m]) THEN <<>>
    ELSE ClaimedFace(m, faces[m][k]) \o ClaimedMesh(m, k + 1)

Resolvable(i) == sel[i] /\ Get[i] \in Meshes

RECURSIVE ClaimedFrom(_)
ClaimedFrom(i) ==
    IF i > MaxObjs THEN <<>>
    ELSE (IF Resolvable(i) THEN ClaimedMesh(Get[i], 1) ELSE <<>>) \o ClaimedFrom(i + 1)

NumLines(out) == Cardinality({n \in 1..Len(out) : out[n] = NL})

LinesOfMesh(m) ==
    Cardinality({k \in 1..Len(faces[m]) : Len(faces[m][k].v) = 3})
    + 2 * Cardinality({k \in 1..Len(faces[m]) : Len(faces[m][k].v) = 4})

RECURSIVE LinesFrom(_)
LinesFrom(i) ==
    IF i > MaxObjs THEN 0
    ELSE (IF Resolvable(i) THEN LinesOfMesh(Get[i]) ELSE 0) + LinesFrom(i + 1)

\* C1: when an export call returns, every mesh holds the vertex positions
\* and normals it held when the call began.
C1_SceneUnchanged == pc = "done" => verts = pre

\* C2: the step that handles a 4-vertex face (v0,v1,v2,v3) appends exactly
\* two records, adjacent and in this order: (v3,v1,v0), then (v1,v2,v3),
\* each with 3 vertices.
C2_QuadTwoRecords ==
    [][(AtFace /\ Len(Face.v) = 4) =>
          /\ Appends
          /\ Len(NewStrings) = 20
          /\ IsRecordOf(SubSeq(NewStrings, 1, 10), mesh,
                        <<Face.v[4], Face.v[2], Face.v[1]>>)
          /\ IsRecordOf(SubSeq(NewStrings, 11, 20), mesh,
                        <<Face.v[2], Face.v[3], Face.v[4]>>)
          /\ fi' = fi + 1]_vars

\* a quad has just been handled and its two records end the file
C2_Witness ==
    /\ pc = "faces" /\ fi > 1
    /\ Len(faces[mesh][fi - 1].v) = 4
    /\ Len(output) >= 20
    /\ IsRecordOf(SubSeq(output, Len(output) - 19, Len(output) - 10), mesh,
                  <<faces[mesh][fi - 1].v[4], faces[mesh][fi - 1].v[2],
                    faces[mesh][fi - 1].v[1]>>)
    /\ IsRecordOf(SubSeq(output, Len(output) - 9, Len(output)), mesh,
                  <<faces[mesh][fi - 1].v[2], faces[mesh][fi - 1].v[3],
                    faces[mesh][fi - 1].v[4]>>)

\* C3: the step that handles a 3-vertex face appends exactly one record,
\* whose vertices are the face's vertices in the face's order.
C3_TriOneRecord ==
    [][(AtFace /\ Len(Face.v) = 3) =>
          /\ Appends
          /\ IsRecordOf(NewStrings, mesh, Face.v)
          /\ fi' = fi + 1]_vars

\* a triangle has just been handled and its record ends the file
C3_Witness ==
    /\ pc = "faces" /\ fi > 1
    /\ Len(faces[mesh][fi - 1].v) = 3
    /\ Len(output) >= 10
    /\ IsRecordOf(SubSeq(output, Len(output) - 9, Len(output)), mesh,
                  faces[mesh][fi - 1].v)

\* C4: every record written for a face with material index i carries
\* materials[i]'s colour in all three vertex triples if
\* 0 <= i < len(materials), and (1.0, 1.0, 1.0) for every other i.
C4_FaceColor ==
    [][(AtFace /\ output' # output) =>
          \A n \in 1..Len(NewStrings) :
              n % 10 \in {3, 6, 9} =>
                  NewStrings[n] = Fmt3(ClaimedColor(materials[mesh], Face.mat))]_vars

\* C5: whatever is written comes from the mesh of a selected object: the
\* object that owns the mesh being written has its selection flag set.
C5_OnlySelected == [][(pc = "faces" /\ output' # output) => sel[mesh]]_vars

\* C6: a lookup that raises or returns None costs only that object: when
\* the export returns, the file holds, in scene order, the full records of
\* every selected object whose mesh resolved, and no exception was raised.
C6_LookupFailureSkips ==
    /\ pc = "done" => output = ClaimedFrom(1)
    /\ pc # "raised"
    /\ exc = "none"

\* a selected object failed its lookup, a later one was exported in full
C6_Witness ==
    /\ pc = "done"
    /\ \E i, k \in Objs :
          /\ i < k
          /\ sel[i] /\ Get[i] \notin Meshes
          /\ Resolvable(k) /\ LinesOfMesh(Get[k]) > 0
    /\ output # <<>>
    /\ output = ClaimedFrom(1)

\* C7: a call opens the file at most once and, once it has opened it,
\* closes it exactly once before it returns or lets an exception out; an
\* exception raised in doExport still reaches the caller; a failed open
\* leaves the file and the scene as they were.
C7_HandleClosed ==
    /\ opens <= 1 /\ closes <= opens
    /\ fileOpen <=> (opens = 1 /\ closes = 0)
    /\ pc \in {"done", "raised"} => (~fileOpen /\ closes = opens)
    /\ pc = "done" => (opens = 1 /\ exc = "none")
    /\ pc = "raised" => exc # "none"
    /\ exc # "none" => pc \in {"raised", "finally"}
    /\ exc = "open" => (pc = "raised" /\ opens = 0 /\ output = prevOutput /\ verts = pre)

\* a write raised part-way through a record, the file was closed and the
\* exception reached the caller
C7_Witness ==
    /\ pc = "raised" /\ exc = "write"
    /\ opens = 1 /\ closes = 1 /\ ~fileOpen
    /\ output # <<>> /\ output[Len(output)] # NL

\* C8: nothing is written for a face that has neither 3 nor 4 vertices and
\* the faces and objects after it are still exported: when the export
\* returns, the file holds whole records only, one per 3-vertex face and
\* two per 4-vertex face of the selected objects whose mesh resolved.
C8_UnsupportedFaceSkipped ==
    pc = "done" =>
        /\ NumLines(output) = LinesFrom(1)
        /\ Len(output) = 10 * LinesFrom(1)

\* an export returned that skipped a face and wrote a later face of the
\* same mesh
C8_Witness ==
    /\ pc = "done"
    /\ \E i \in Objs :
          /\ Resolvable(i)
          /\ \E a, b \in 1..Len(faces[Get[i]]) :
                /\ a < b
                /\ Len(faces[Get[i]][a].v) \notin {3, 4}
                /\ Len(faces[Get[i]][b].v) \in {3, 4}
    /\ NumLines(output) = LinesFrom(1)
    /\ NumLines(output) > 0

\* the vertices the records of face f are built from, in writing order
WrittenIds(f) ==
    IF Len(f.v) = 3 THEN f.v
    ELSE <<f.v[4], f.v[2], f.v[1], f.v[2], f.v[3], f.v[4]>>

\* C9: every position written is the mesh-local position multiplied by the
\* world matrix of the object that owns the mesh, and every normal written
\* is the mesh-local normal multiplied by that matrix without translation.
C9_WorldSpace ==
    [][(AtFace /\ output' # output) =>
          \A k \in 1..Len(WrittenIds(Face)) :
              LET at == 10 * ((k - 1) \div 3) + 3 * ((k - 1) % 3) + 1
                  v == pre[mesh][WrittenIds(Face)[k]]
              IN  /\ NewStrings[at] = Fmt3(MulVec(matrixWorld[mesh], v.co))
                  /\ NewStrings[at + 1] = Fmt3(MulLin(matrixWorld[mesh], v.no))]_vars

\* C10: a second export of the same scene writes what the first wrote.
C10_Repeatable == (pc = "done" /\ calls >= 2) => output = prevOutput

====
